---- MODULE Spec2Model ----
(***************************************************************************)
(* Model of ItemInput (src/src/ItemInput.h): the editable menu item of     *)
(* LcdMenu.  One item, one display.  Every command handed to process() is  *)
(* one atomic action; the handler's statements are composed in source      *)
(* order over a record of the item's and the display's fields.             *)
(***************************************************************************)
EXTENDS Integers, Sequences, FiniteSets, TLC

\* ---- bounds of the model ------------------------------------------------
MaxLen == 3
MaxCols == 6
\* commands that would move the cursor beyond MaxCursor are not issued
MaxCursor == 4
\* the longest value of the specification of long values
MaxLongLen == 257

\* ---- control codes (src/src/utils/constants.h) --------------------------
BACKSPACE == 8
ENTER == 10
BACK == 27
UP == 128
DOWN == 129
RIGHT == 130
LEFT == 131
CLEAR == 132

\* ---- inputs -------------------------------------------------------------
\* printable characters typed in the model: 'a', 'b'
Alphabet == {97, 98}
\* command codes outside the recognized set: BEL, 200
OtherCodes == {7, 200}
\* label of the item: "N"
Labels == {<<78>>}
\* what a read past the terminating NUL of a string may yield: the bytes
\* that lie there up to the next NUL, any number of them; '?' stands for
\* such a byte
Garbage == {[i \in 1..n |-> 63] : n \in 0..MaxCols}
\* distances from a heap block overrun by typeChar to the buffer of draw(),
\* when that buffer lies behind the block: the multiples of the allocator's
\* 16-byte unit that leave room for the block
HeapGaps == {16 * k : k \in 2..16}
\* an access beyond a buffer that does no harm
Lucky == [stop |-> FALSE, gap |-> 0]
\* what an access beyond the end of a buffer may do: the process stops at it
\* (a checked build, or the end of a mapping), or goes on; a write that goes
\* on may find the buffer of draw() gap bytes behind the block it overran
Overruns ==
    {[stop |-> TRUE, gap |-> 0], Lucky}
        \cup {[stop |-> FALSE, gap |-> n] : n \in HeapGaps}
\* values an uninitialized uint8_t field may hold
Uninit == 0..255

\* the strings a user hands to the item: "", "a", "ab", "aba", ...
Values == {[i \in 1..n |-> IF i % 2 = 1 THEN 97 ELSE 98] : n \in 0..MaxLen}

\* the command when no process() call was made since the item was built or
\* given another value: not a command code
NoCommand == -1

\* the row as drawn before the item was ever drawn
NotDrawn == <<"none">>

\* ---- C helpers ----------------------------------------------------------
\* uint8_t conversion
U8(x) == x % 256

Min(a, b) == IF a < b THEN a ELSE b

isprint(c) == c \in 32..126

strlen(str) == Len(str)

\* Arduino constrain(x, low, high)
constrain(x, low, high) == IF x < low THEN low ELSE IF x > high THEN high ELSE x

\* substring(str, start, size, out): at most size characters of str from
\* index start; reading from beyond the terminating NUL yields at most size
\* characters of the garbage g.
substring(str, start, size, g) ==
    IF start > Len(str) THEN SubSeq(g, 1, Min(size, Len(g)))
    ELSE SubSeq(str, start + 1, Min(start + size, Len(str)))

\* concat(first, ch, second, out) and concat(first, ch, out)
concat(first, ch, second) == first \o <<ch>> \o second

\* remove(str, index, count): removes count characters from index; with no
\* character at index the string keeps its characters.
remove(str, index, count) ==
    IF index + count <= Len(str)
    THEN SubSeq(str, 1, index) \o SubSeq(str, index + count + 1, Len(str))
    ELSE str

\* ---- state --------------------------------------------------------------
VARIABLES
    text,             \* MenuItem::text, the label
    maxCols,          \* DisplayInterface::getMaxCols()
    value,            \* ItemInput::value
    view,             \* ItemInput::view (uint8_t)
    cursor,           \* ItemInput::cursor (uint8_t)
    callback,         \* ItemInput::callback is not NULL
    editModeEnabled,  \* DisplayInterface edit mode flag
    blinkerPosition,  \* DisplayInterface caret column
    blinkerVisible,   \* DisplayInterface caret shown
    drawn,            \* the row last passed to DisplayInterface::drawItem
    events,           \* display and callback calls made by the last command
    calls,            \* what each callback invocation of the last command saw
    command,          \* Context::command of the last process() call
    ret,              \* what the last process() call returned
    run,              \* the process: "running", "corrupt" (running with its
                      \* heap overwritten) or "aborted"
    overlap           \* 0, or the distance from value to the buffer of draw()
                      \* when value runs through that buffer

vars == <<text, maxCols, value, view, cursor, callback, editModeEnabled,
          blinkerPosition, blinkerVisible, drawn, events, calls, command, ret,
          run, overlap>>

\* the state as one record, with the command c being processed, the
\* garbage g an out-of-bounds read yields and the outcome o a buffer overrun
\* has while it is processed
St(c, g, o) ==
    [text |-> text, maxCols |-> maxCols, value |-> value, view |-> view,
     cursor |-> cursor, callback |-> callback,
     editModeEnabled |-> editModeEnabled, blinkerPosition |-> blinkerPosition,
     blinkerVisible |-> blinkerVisible, drawn |-> drawn,
     events |-> <<>>, calls |-> <<>>, command |-> c, ret |-> FALSE,
     run |-> run, overlap |-> overlap, oob |-> g, overrun |-> o]

\* ---- DisplayInterface ---------------------------------------------------
getMaxCols(s) == s.maxCols

getEditModeEnabled(s) == s.editModeEnabled

setEditModeEnabled(s, enabled) ==
    [s EXCEPT !.editModeEnabled = enabled,
              !.events = Append(@, "setEditModeEnabled")]

getBlinkerPosition(s) == s.blinkerPosition

resetBlinker(s, position) ==
    [s EXCEPT !.blinkerPosition = U8(position),
              !.events = Append(@, "resetBlinker")]

drawBlinker(s) ==
    [s EXCEPT !.blinkerVisible = TRUE, !.events = Append(@, "drawBlinker")]

clearBlinker(s) ==
    [s EXCEPT !.blinkerVisible = FALSE, !.events = Append(@, "clearBlinker")]

drawItem(s, label, separator, buf) ==
    [s EXCEPT !.drawn = <<label, separator, buf>>,
              !.events = Append(@, "drawItem")]

\* callback(value): the callback sees the item and the display as they are
\* when it is called
invokeCallback(s) ==
    [s EXCEPT !.calls = Append(@, [arg |-> s.value,
                                   editModeEnabled |-> s.editModeEnabled,
                                   blinkerVisible |-> s.blinkerVisible,
                                   cursor |-> s.cursor,
                                   view |-> s.view,
                                   drawn |-> s.drawn,
                                   before |-> s.events]),
              !.events = Append(@, "callback")]

return(s, handled) == [s EXCEPT !.ret = handled]

\* the process aborts inside the handler entered in state s: process() does
\* not return
abort(s) == [s EXCEPT !.run = "aborted"]

\* ---- ItemInput ----------------------------------------------------------
getViewSize(s) == U8(getMaxCols(s) - (strlen(s.text) + 2) - 1)

constrainBlinkerPosition(s, position) ==
    LET cols == getMaxCols(s)
        lb == U8(strlen(s.text) + 2)
        ub0 == U8(lb + strlen(s.value))
        ub == U8(constrain(ub0, lb, cols - 2))
    IN U8(constrain(U8(position), lb, ub))

\* substring(value, view, ...) with view beyond the terminating NUL reads
\* behind the string: the process stops at the read or draws what lies there
\* static char* buf receives the slice and a NUL; when value runs through
\* buf, that is a write into value: the slice and its NUL end the value
draw(s) ==
    LET buf == substring(s.value, s.view, getViewSize(s), s.oob)
        s1 == IF s.overlap > 0 /\ s.overlap <= strlen(s.value)
              THEN [s EXCEPT !.value = SubSeq(@, 1, s.overlap) \o buf]
              ELSE s
    IN IF s.view > strlen(s.value) /\ s.overrun.stop THEN abort(s)
       ELSE drawItem(s1, s.text, ":", buf)

\* MenuItem::draw(display) draws the item on the display's cursor row
MenuItem_draw(s) == draw(s)

\* enter() that moves the window one position too few
enter_shortJump(s) ==
    IF getEditModeEnabled(s) THEN return(s, FALSE)
    ELSE
    LET length == U8(strlen(s.value))
        s1 == [s EXCEPT !.cursor = length]
        viewSize == getViewSize(s1)
        s2 == IF s1.cursor > viewSize
              THEN [s1 EXCEPT !.view = U8(length - viewSize)]
              ELSE s1
        s3 == MenuItem_draw(s2)
        s4 == setEditModeEnabled(s3, TRUE)
        s5 == resetBlinker(s4, constrainBlinkerPosition(s4,
                  strlen(s4.text) + 2 + s4.cursor - s4.view))
        s6 == drawBlinker(s5)
    IN return(s6, TRUE)

enter(s) ==
    IF getEditModeEnabled(s) THEN return(s, FALSE)
    ELSE
    LET length == U8(strlen(s.value))
        s1 == [s EXCEPT !.cursor = length]
        viewSize == getViewSize(s1)
        s2 == IF s1.cursor > viewSize
              THEN [s1 EXCEPT !.view = U8(length - (viewSize - 1))]
              ELSE s1
        s3 == MenuItem_draw(s2)
        s4 == setEditModeEnabled(s3, TRUE)
        s5 == resetBlinker(s4, constrainBlinkerPosition(s4,
                  strlen(s4.text) + 2 + s4.cursor - s4.view))
        s6 == drawBlinker(s5)
    IN return(s6, TRUE)

\* back() that clears the edit mode flag only after the callback returned
back_flagLast(s) ==
    IF ~getEditModeEnabled(s) THEN return(s, FALSE)
    ELSE
    LET s1 == clearBlinker(s)
        s3 == [s1 EXCEPT !.cursor = 0, !.view = 0]
        s4 == MenuItem_draw(s3)
        s5 == IF s4.callback THEN invokeCallback(s4) ELSE s4
        s6 == setEditModeEnabled(s5, FALSE)
    IN return(s6, TRUE)

\* back() that redraws the row only after the callback returned
back_drawLast(s) ==
    IF ~getEditModeEnabled(s) THEN return(s, FALSE)
    ELSE
    LET s1 == clearBlinker(s)
        s2 == setEditModeEnabled(s1, FALSE)
        s3 == [s2 EXCEPT !.cursor = 0, !.view = 0]
        s4 == IF s3.callback THEN invokeCallback(s3) ELSE s3
        s5 == MenuItem_draw(s4)
    IN return(s5, TRUE)

\* back() without the edit mode check
back_unguarded(s) ==
    LET s1 == clearBlinker(s)
        s2 == setEditModeEnabled(s1, FALSE)
        s3 == [s2 EXCEPT !.cursor = 0, !.view = 0]
        s4 == MenuItem_draw(s3)
        s5 == IF s4.callback THEN invokeCallback(s4) ELSE s4
    IN return(s5, TRUE)

\* back() that commits the value as the window shows it
back_commitsSlice(s) ==
    IF ~getEditModeEnabled(s) THEN return(s, FALSE)
    ELSE
    LET s1 == clearBlinker(s)
        s2 == setEditModeEnabled(s1, FALSE)
        s3 == [s2 EXCEPT !.cursor = 0,
                         !.value = substring(@, s.view, getViewSize(s), s.oob),
                         !.view = 0]
        s4 == MenuItem_draw(s3)
        s5 == IF s4.callback THEN invokeCallback(s4) ELSE s4
    IN return(s5, TRUE)

\* back() that leaves the window where it was
back_keepsView(s) ==
    IF ~getEditModeEnabled(s) THEN return(s, FALSE)
    ELSE
    LET s1 == clearBlinker(s)
        s2 == setEditModeEnabled(s1, FALSE)
        s3 == [s2 EXCEPT !.cursor = 0]
        s4 == MenuItem_draw(s3)
        s5 == IF s4.callback THEN invokeCallback(s4) ELSE s4
    IN return(s5, TRUE)

back(s) ==
    IF ~getEditModeEnabled(s) THEN return(s, FALSE)
    ELSE
    LET s1 == clearBlinker(s)
        s2 == setEditModeEnabled(s1, FALSE)
        s3 == [s2 EXCEPT !.cursor = 0, !.view = 0]
        s4 == MenuItem_draw(s3)
        s5 == IF s4.callback THEN invokeCallback(s4) ELSE s4
    IN return(s5, TRUE)

left(s) ==
    IF ~getEditModeEnabled(s) THEN return(s, FALSE)
    ELSE IF s.cursor = 0 THEN return(s, TRUE)
    ELSE
    LET s1 == [s EXCEPT !.cursor = U8(@ - 1)]
        s2 == IF s1.cursor < s1.view
              THEN MenuItem_draw([s1 EXCEPT !.view = U8(@ - 1)])
              ELSE s1
        s3 == resetBlinker(s2, constrainBlinkerPosition(s2,
                  getBlinkerPosition(s2) - 1))
    IN return(s3, TRUE)

\* right() without the check for the end of the value
right_noEnd(s) ==
    IF ~getEditModeEnabled(s) THEN return(s, FALSE)
    ELSE
    LET s1 == [s EXCEPT !.cursor = U8(@ + 1)]
        viewSize == getViewSize(s1)
        s2 == IF s1.cursor > (s1.view + viewSize - 1)
              THEN MenuItem_draw([s1 EXCEPT !.view = U8(@ + 1)])
              ELSE s1
        s3 == resetBlinker(s2, constrainBlinkerPosition(s2,
                  getBlinkerPosition(s2) + 1))
    IN return(s3, TRUE)

right(s) ==
    IF ~getEditModeEnabled(s) THEN return(s, FALSE)
    ELSE IF s.cursor = strlen(s.value) THEN return(s, TRUE)
    ELSE
    LET s1 == [s EXCEPT !.cursor = U8(@ + 1)]
        viewSize == getViewSize(s1)
        s2 == IF s1.cursor > (s1.view + viewSize - 1)
              THEN MenuItem_draw([s1 EXCEPT !.view = U8(@ + 1)])
              ELSE s1
        s3 == resetBlinker(s2, constrainBlinkerPosition(s2,
                  getBlinkerPosition(s2) + 1))
    IN return(s3, TRUE)

backspace(s) ==
    IF ~getEditModeEnabled(s) THEN return(s, FALSE)
    ELSE IF strlen(s.value) = 0 \/ s.cursor = 0 THEN return(s, TRUE)
    ELSE
    LET s1 == [s EXCEPT !.value = remove(@, s.cursor - 1, 1)]
        s2 == [s1 EXCEPT !.cursor = U8(@ - 1)]
        s3 == IF s2.cursor < s2.view THEN [s2 EXCEPT !.view = U8(@ - 1)] ELSE s2
        s4 == MenuItem_draw(s3)
        s5 == resetBlinker(s4, constrainBlinkerPosition(s4,
                  getBlinkerPosition(s4) - 1))
    IN return(s5, TRUE)

\* typeChar() that moves the window so that the cursor is its last column
typeChar_jump(s) ==
    LET character == s.command IN
    IF ~getEditModeEnabled(s) THEN return(s, FALSE)
    ELSE
    LET length == U8(strlen(s.value))
        \* char end[length] receives length - cursor characters and a NUL
        endOverrun == s.cursor < length /\ (length - s.cursor) + 1 > length
        \* new char[length + 2] receives strlen(value) + 2 bytes
        bufOverrun == ~(s.cursor < length) /\ strlen(s.value) + 2 > length + 2
        \* value points at the new block; the block that was overrun may
        \* run through the buffer of draw()
        s1 == IF s.cursor < length
              THEN LET start == substring(s.value, 0, s.cursor, s.oob)
                       end == substring(s.value, s.cursor, length - s.cursor, s.oob)
                   IN [s EXCEPT !.value = concat(start, character, end),
                                !.overlap = 0]
              ELSE [s EXCEPT !.value = concat(@, character, <<>>),
                             !.run = IF bufOverrun THEN "corrupt" ELSE @,
                             !.overlap = IF bufOverrun THEN s.overrun.gap
                                         ELSE 0]
        s2 == [s1 EXCEPT !.cursor = U8(@ + 1)]
        viewSize == getViewSize(s2)
        s3 == IF s2.cursor > (s2.view + viewSize - 1)
              THEN [s2 EXCEPT !.view = U8(s2.cursor - (viewSize - 1))]
              ELSE s2
        s4 == MenuItem_draw(s3)
        s5 == resetBlinker(s4, constrainBlinkerPosition(s4,
                  getBlinkerPosition(s4) + 1))
    IN \* new char[] on an overwritten heap, or a write beyond a buffer
       IF (s.run = "corrupt" \/ endOverrun \/ bufOverrun) /\ s.overrun.stop
       THEN abort(s)
       ELSE return(s5, TRUE)

typeChar(s) ==
    LET character == s.command IN
    IF ~getEditModeEnabled(s) THEN return(s, FALSE)
    ELSE
    LET length == U8(strlen(s.value))
        \* char end[length] receives length - cursor characters and a NUL
        endOverrun == s.cursor < length /\ (length - s.cursor) + 1 > length
        \* new char[length + 2] receives strlen(value) + 2 bytes
        bufOverrun == ~(s.cursor < length) /\ strlen(s.value) + 2 > length + 2
        \* value points at the new block; the block that was overrun may
        \* run through the buffer of draw()
        s1 == IF s.cursor < length
              THEN LET start == substring(s.value, 0, s.cursor, s.oob)
                       end == substring(s.value, s.cursor, length - s.cursor, s.oob)
                   IN [s EXCEPT !.value = concat(start, character, end),
                                !.overlap = 0]
              ELSE [s EXCEPT !.value = concat(@, character, <<>>),
                             !.run = IF bufOverrun THEN "corrupt" ELSE @,
                             !.overlap = IF bufOverrun THEN s.overrun.gap
                                         ELSE 0]
        s2 == [s1 EXCEPT !.cursor = U8(@ + 1)]
        viewSize == getViewSize(s2)
        s3 == IF s2.cursor > (s2.view + viewSize - 1)
              THEN [s2 EXCEPT !.view = U8(@ + 1)]
              ELSE s2
        s4 == MenuItem_draw(s3)
        s5 == resetBlinker(s4, constrainBlinkerPosition(s4,
                  getBlinkerPosition(s4) + 1))
    IN \* new char[] on an overwritten heap, or a write beyond a buffer
       IF (s.run = "corrupt" \/ endOverrun \/ bufOverrun) /\ s.overrun.stop
       THEN abort(s)
       ELSE return(s5, TRUE)

\* clear() without the edit mode check
clear_unguarded(s) ==
    LET s1 == [s EXCEPT !.value = <<>>, !.overlap = 0]
        s2 == MenuItem_draw(s1)
        s3 == resetBlinker(s2, constrainBlinkerPosition(s2, strlen(s2.text) + 2))
    IN return(s3, TRUE)

clear(s) ==
    IF ~getEditModeEnabled(s) THEN return(s, FALSE)
    ELSE
    LET s1 == [s EXCEPT !.value = <<>>, !.overlap = 0]
        s2 == MenuItem_draw(s1)
        s3 == resetBlinker(s2, constrainBlinkerPosition(s2, strlen(s2.text) + 2))
    IN return(s3, TRUE)

process(s) ==
    LET c == s.command IN
    IF isprint(c) THEN typeChar(s)
    ELSE IF c = ENTER THEN enter(s)
    ELSE IF c = BACK THEN back(s)
    ELSE IF c = UP THEN return(s, getEditModeEnabled(s))
    ELSE IF c = DOWN THEN return(s, getEditModeEnabled(s))
    ELSE IF c = LEFT THEN left(s)
    ELSE IF c = RIGHT THEN right(s)
    ELSE IF c = BACKSPACE THEN backspace(s)
    ELSE IF c = CLEAR THEN clear(s)
    ELSE return(s, FALSE)

\* ---- the state machine --------------------------------------------------
\* the label leaves at least one column for the value
Fits(label, cols) == Len(label) + 2 <= cols - 2

\* ItemInput(text, value, callback) on a display whose edit mode is off
Init ==
    /\ text \in Labels
    /\ maxCols \in {c \in 1..MaxCols : Fits(text, c)}
    /\ value \in Values
    /\ view = 0
    /\ cursor \in Uninit
    /\ callback \in BOOLEAN
    /\ editModeEnabled = FALSE
    /\ blinkerPosition = 0
    /\ blinkerVisible = FALSE
    /\ drawn = NotDrawn
    /\ events = <<>>
    /\ calls = <<>>
    /\ command = NoCommand
    /\ ret = FALSE
    /\ run = "running"
    /\ overlap = 0

\* the state after process() returned r
Apply(r) ==
    /\ value' = r.value
    /\ view' = r.view
    /\ cursor' = r.cursor
    /\ editModeEnabled' = r.editModeEnabled
    /\ blinkerPosition' = r.blinkerPosition
    /\ blinkerVisible' = r.blinkerVisible
    /\ drawn' = r.drawn
    /\ events' = r.events
    /\ calls' = r.calls
    /\ command' = r.command
    /\ ret' = r.ret
    /\ run' = r.run
    /\ overlap' = r.overlap
    /\ UNCHANGED <<text, maxCols, callback>>

\* what one process() call with command c can leave behind. A call that
\* reaches no display operation returned before it read or wrote a buffer, so
\* the memory behind the buffers has no part in it; any other call may read
\* up to getViewSize() bytes behind a NUL, may overrun a buffer, and may stop
\* at either. A call that stopped does not return: nothing of what the
\* handler did is left to see.
Outcomes(c) ==
    LET entry == St(c, <<>>, Lucky)
        quiet == process(entry)
        shown == {t \in Garbage : Len(t) <= getViewSize(entry)}
        \* only a value of 256 and more characters overruns a heap block
        hits == {o \in Overruns : o.gap = 0 \/ strlen(entry.value) > 255}
    IN IF quiet.events = <<>> THEN {quiet}
       ELSE {IF r.run = "aborted" THEN abort(entry)
             ELSE [r EXCEPT !.oob = <<>>, !.overrun = Lucky] :
                r \in {process(St(c, g, o)) : g \in shown, o \in hits}}

\* one process() call with command c, in a process that has not aborted
Process(c) ==
    /\ run # "aborted"
    /\ \E r \in Outcomes(c) : Apply(r)

ProcessPrintable ==
    \E ch \in Alphabet :
        /\ command' = ch
        /\ editModeEnabled => (Len(value) < MaxLen /\ cursor < MaxCursor)
        /\ Process(ch)
ProcessEnter ==
    /\ command' = ENTER
    /\ Process(ENTER)
ProcessBack ==
    /\ command' = BACK
    /\ Process(BACK)
ProcessUp ==
    /\ command' = UP
    /\ Process(UP)
ProcessDown ==
    /\ command' = DOWN
    /\ Process(DOWN)
ProcessLeft ==
    /\ command' = LEFT
    /\ Process(LEFT)
ProcessRight ==
    /\ command' = RIGHT
    /\ (editModeEnabled /\ cursor # Len(value)) => cursor < MaxCursor
    /\ Process(RIGHT)
ProcessBackspace ==
    /\ command' = BACKSPACE
    /\ Process(BACKSPACE)
ProcessClear ==
    /\ command' = CLEAR
    /\ Process(CLEAR)
ProcessOther ==
    \E c \in OtherCodes :
        /\ command' = c
        /\ Process(c)

\* setValue(value) between two process() calls: the item points at another
\* string, nothing else changes; no process() call is left to observe
SetValue ==
    /\ run # "aborted"
    /\ \E v \in Values : value' = v
    /\ command' = NoCommand
    /\ ret' = FALSE
    /\ events' = <<>>
    /\ calls' = <<>>
    /\ overlap' = 0
    /\ UNCHANGED <<text, maxCols, view, cursor, callback, editModeEnabled,
                   blinkerPosition, blinkerVisible, drawn, run>>

Next ==
    \/ SetValue
    \/ ProcessPrintable
    \/ ProcessEnter
    \/ ProcessBack
    \/ ProcessUp
    \/ ProcessDown
    \/ ProcessLeft
    \/ ProcessRight
    \/ ProcessBackspace
    \/ ProcessClear
    \/ ProcessOther

Spec == Init /\ [][Next]_vars

\* the commands alone: a user that never calls setValue
NextCommands ==
    \/ ProcessPrintable
    \/ ProcessEnter
    \/ ProcessBack
    \/ ProcessUp
    \/ ProcessDown
    \/ ProcessLeft
    \/ ProcessRight
    \/ ProcessBackspace
    \/ ProcessClear
    \/ ProcessOther

SpecCommands == Init /\ [][NextCommands]_vars

TypeOK ==
    /\ view \in 0..255
    /\ cursor \in 0..255
    /\ blinkerPosition \in 0..255
    /\ Len(value) <= MaxLen
    /\ run \in {"running", "corrupt", "aborted"}
    /\ overlap \in {0} \cup HeapGaps

\* the commands restricted to ENTER and BACK: a session without edits
NextRoundTrip ==
    \/ ProcessEnter
    \/ ProcessBack

SpecRoundTrip == Init /\ [][NextRoundTrip]_vars

\* values of 254 characters and more, all 'a'
LongValues == {[i \in 1..n |-> 97] : n \in 254..MaxLongLen}

\* ItemInput(text, value, callback) with a long value and a callback
InitLong ==
    /\ text \in Labels
    /\ maxCols \in {c \in 1..MaxCols : Fits(text, c)}
    /\ value \in LongValues
    /\ view = 0
    /\ cursor \in Uninit
    /\ callback = TRUE
    /\ editModeEnabled = FALSE
    /\ blinkerPosition = 0
    /\ blinkerVisible = FALSE
    /\ drawn = NotDrawn
    /\ events = <<>>
    /\ calls = <<>>
    /\ command = NoCommand
    /\ ret = FALSE
    /\ run = "running"
    /\ overlap = 0

ProcessPrintableLong ==
    /\ command' = 97
    /\ editModeEnabled => (value \in LongValues /\ Len(value) < MaxLongLen)
    /\ Process(97)

\* setValue(value) with a long value
SetValueLong ==
    /\ run # "aborted"
    /\ \E v \in LongValues : value' = v
    /\ command' = NoCommand
    /\ ret' = FALSE
    /\ events' = <<>>
    /\ calls' = <<>>
    /\ overlap' = 0
    /\ UNCHANGED <<text, maxCols, view, cursor, callback, editModeEnabled,
                   blinkerPosition, blinkerVisible, drawn, run>>

\* sessions that append to a long value
NextLong ==
    \/ SetValueLong
    \/ ProcessEnter
    \/ ProcessBack
    \/ ProcessPrintableLong

SpecLong == InitLong /\ [][NextLong]_vars

\* ---- the terms of the specification -------------------------------------
Editing == editModeEnabled
Viewing == ~editModeEnabled
VisibleWidth == maxCols - (Len(text) + 2) - 1
CaretLow == Len(text) + 2
CaretHigh == Min(CaretLow + Len(value), maxCols - 2)
CaretFormula == constrain(CaretLow + (cursor - view), CaretLow, CaretHigh)
\* the row that shows string str from its first character
RowFromStart(str) == <<text, ":", SubSeq(str, 1, Min(VisibleWidth, Len(str)))>>
\* the item's and the display's fields
fields == <<text, maxCols, value, view, cursor, callback, editModeEnabled,
            blinkerPosition, blinkerVisible, drawn>>

\* ---- claims -------------------------------------------------------------
\* C1: in every state reachable while Editing, Cursor is within
\* [0, length(Value)]; every mutating operation, clear() included, leaves it
\* there.
C1_CursorWithinValue == Editing => (0 <= cursor /\ cursor <= Len(value))

\* C2: while Editing, whenever length(Value) > VisibleWidth the cursor lies
\* inside the visible window: View Offset <= Cursor <= View Offset +
\* VisibleWidth - 1.
C2_CursorInsideWindow ==
    (Editing /\ Len(value) > VisibleWidth)
        => (view <= cursor /\ cursor <= view + VisibleWidth - 1)

\* C3: while Editing, whenever length(Value) <= VisibleWidth the View Offset
\* is 0.
C3_UnscrolledWhenValueFits ==
    (Editing /\ Len(value) <= VisibleWidth) => view = 0

\* C4: while Editing the Caret Position stored on the display equals
\* len(Label) + 2 + (Cursor - View Offset) clamped to
\* [len(Label)+2, min(len(Label)+2+length(Value), TotalColumns-2)].
C4_CaretIsProjection == Editing => blinkerPosition = CaretFormula

\* C5: in every state reachable while Editing, for a label that fits, the
\* Caret Position is within
\* [len(Label)+2, min(len(Label)+2+length(Value), TotalColumns-2)] computed
\* with the current Value.
C5_CaretInRange ==
    (Editing /\ Fits(text, maxCols))
        => (CaretLow <= blinkerPosition /\ blinkerPosition <= CaretHigh)

\* C6: ENTER from Viewing immediately followed by BACK leaves Value
\* unchanged, both commands return handled, the item ends in Viewing, and
\* the completion callback of the item is invoked exactly once, with the
\* original value.
C6_RoundTrip ==
    [][ /\ (Viewing /\ command' = ENTER)
            => (ret' /\ editModeEnabled' /\ value' = value /\ calls' = <<>>)
        /\ (command = ENTER /\ ret /\ command' = BACK)
            => /\ ret'
               /\ ~editModeEnabled'
               /\ value' = value
               /\ Len(calls') = (IF callback THEN 1 ELSE 0)
               /\ callback => calls'[1].arg = value ]_vars

\* BACK was handled in a session without edits and the callback got the
\* value, which is not empty
C6_Witness ==
    /\ command = BACK /\ ret /\ Viewing
    /\ Len(calls) = 1 /\ calls[1].arg = value /\ Len(value) > 0

\* C7: the completion callback is invoked only by a BACK processed while
\* Editing, exactly once per such BACK when a callback is set, with the Value
\* current at that moment; BACK while the Edit Mode Flag is false returns
\* unhandled, changes no state and invokes nothing.
C7_CallbackOnlyOnBack ==
    [][ /\ calls' # <<>> => (command' = BACK /\ Editing /\ ~editModeEnabled')
        /\ (command' = BACK /\ Editing /\ callback)
            => (Len(calls') = 1 /\ calls'[1].arg = value /\ value' = value)
        /\ (command' = BACK /\ Editing /\ ~callback) => calls' = <<>>
        /\ (command' = BACK /\ Viewing)
            => (~ret' /\ calls' = <<>> /\ events' = <<>> /\ fields' = fields)
      ]_vars

\* a BACK ended a session on a value longer than the window, the row was
\* redrawn from the start of the value and the callback ran once
C7_Witness ==
    /\ command = BACK /\ ret /\ callback
    /\ Len(calls) = 1 /\ calls[1].arg = value
    /\ drawn = RowFromStart(value) /\ Len(value) > VisibleWidth

\* C8: on BACK while Editing the caret is hidden, the Edit Mode Flag is
\* cleared, Cursor and View Offset are set to 0 and the row is redrawn, in
\* this order, and only then the callback is invoked: the callback finds the
\* last drawn row showing the final Value from View Offset 0 and the flag
\* false.
C8_RedrawBeforeCallback ==
    (command = BACK /\ ret)
        => /\ Len(events) >= 3
           /\ SubSeq(events, 1, 3) = <<"clearBlinker", "setEditModeEnabled", "drawItem">>
           /\ drawn = RowFromStart(value)
           /\ calls # <<>>
               => /\ events = <<"clearBlinker", "setEditModeEnabled", "drawItem", "callback">>
                  /\ calls[1].before = <<"clearBlinker", "setEditModeEnabled", "drawItem">>
                  /\ calls[1].drawn = RowFromStart(calls[1].arg)
                  /\ calls[1].arg = value
                  /\ calls[1].cursor = 0
                  /\ calls[1].view = 0
                  /\ ~calls[1].blinkerVisible
                  /\ ~calls[1].editModeEnabled

\* the callback ran on a BACK and saw the row of a non-empty value
C8_Witness ==
    /\ command = BACK /\ ret
    /\ calls # <<>> /\ calls[1].drawn = RowFromStart(value) /\ Len(value) > 0

\* C9 as stated: the callback is invoked, once and with the final Value,
\* while the Edit Mode Flag still reads true.
C9_CallbackBeforeFlagCleared ==
    calls # <<>>
        => (Len(calls) = 1 /\ calls[1].arg = value /\ calls[1].editModeEnabled)

\* C9 as amended: on exit from edit mode the callback is invoked, once and
\* with the final Value, after the Edit Mode Flag was cleared: the flag reads
\* false while the callback runs.
C9_CallbackAfterFlagCleared ==
    calls # <<>>
        => /\ Len(calls) = 1
           /\ calls[1].arg = value
           /\ ~calls[1].editModeEnabled
           /\ \E i \in 1..Len(calls[1].before) :
                  calls[1].before[i] = "setEditModeEnabled"

\* the callback ran and saw the flag cleared
C9_Witness ==
    /\ calls # <<>> /\ ~calls[1].editModeEnabled
    /\ "setEditModeEnabled" \in {calls[1].before[i] : i \in 1..Len(calls[1].before)}

\* C10: from an Editing state with 0 <= Cursor <= length(Value), LEFT and
\* RIGHT keep Cursor within [0, length(Value)], leave Value as it is and
\* return handled; LEFT at Cursor = 0 and RIGHT at Cursor = length(Value)
\* change nothing.
C10_LeftRightStayInside ==
    [][ (Editing /\ cursor <= Len(value) /\ command' \in {LEFT, RIGHT})
            => /\ ret'
               /\ value' = value
               /\ editModeEnabled'
               /\ 0 <= cursor' /\ cursor' <= Len(value')
               /\ ((command' = LEFT /\ cursor = 0)
                       \/ (command' = RIGHT /\ cursor = Len(value)))
                   => (fields' = fields /\ events' = <<>>) ]_vars

\* a RIGHT was issued with the cursor at the end of a non-empty value
C10_Witness ==
    /\ Editing /\ command = RIGHT /\ ret /\ events = <<>>
    /\ cursor = Len(value) /\ Len(value) > 0

\* C11: a printable character processed while Editing is inserted at Cursor:
\* Value = P ++ S with Cursor = length(P) becomes P ++ <ch> ++ S, Cursor
\* advances by exactly 1 and the command returns handled, in every reachable
\* Editing state.
C11_InsertAtCursor ==
    [][ (Editing /\ isprint(command'))
            => /\ ret'
               /\ cursor <= Len(value)
               /\ value' = SubSeq(value, 1, cursor) \o <<command'>>
                               \o SubSeq(value, cursor + 1, Len(value))
               /\ cursor' = cursor + 1 ]_vars

\* C12: BACKSPACE while Editing with Cursor = 0 or an empty Value mutates
\* nothing and returns handled; otherwise exactly the character at index
\* Cursor-1 is removed, Cursor and length(Value) decrease by exactly 1.
C12_DeleteBeforeCursor ==
    [][ (Editing /\ command' = BACKSPACE)
            => /\ ret'
               /\ IF cursor = 0 \/ Len(value) = 0
                  THEN fields' = fields
                  ELSE /\ cursor <= Len(value)
                       /\ value' = SubSeq(value, 1, cursor - 1)
                                       \o SubSeq(value, cursor + 1, Len(value))
                       /\ cursor' = cursor - 1
                       /\ Len(value') = Len(value) - 1 ]_vars

\* C13: ENTER while Viewing sets the Edit Mode Flag, sets Cursor to
\* length(Value) and View Offset to length(Value) - (VisibleWidth - 1) when
\* length(Value) > VisibleWidth and to 0 otherwise, leaves Value unchanged
\* and returns handled.
C13_EnterJumpsToTail ==
    [][ (Viewing /\ command' = ENTER)
            => /\ ret'
               /\ editModeEnabled'
               /\ value' = value
               /\ cursor' = Len(value)
               /\ view' = (IF Len(value) > VisibleWidth
                           THEN Len(value) - (VisibleWidth - 1)
                           ELSE 0) ]_vars

\* ENTER was handled on a value longer than the window: the window stands
\* at the tail
C13_Witness ==
    /\ command = ENTER /\ ret /\ Editing
    /\ Len(value) > VisibleWidth + 1
    /\ cursor = Len(value) /\ view = Len(value) - (VisibleWidth - 1)

\* C14: CLEAR while Editing sets Value to empty and View Offset to 0,
\* whatever Cursor and View Offset were, places the caret at column
\* len(Label)+2 and returns handled.
C14_ClearResetsWindow ==
    (Editing /\ command = CLEAR)
        => (ret /\ value = <<>> /\ view = 0 /\ blinkerPosition = CaretLow)

\* C15: in every reachable state View Offset is a valid index into Value,
\* 0 <= View Offset <= length(Value).
C15_ViewWithinValue == 0 <= view /\ view <= Len(value)

\* C16: a command that is not applicable in the current state changes
\* nothing, draws nothing and invokes nothing: printable characters, BACK,
\* LEFT, RIGHT, BACKSPACE and CLEAR while Viewing and ENTER while Editing
\* return unhandled, UP and DOWN return the Edit Mode Flag, any other code
\* returns unhandled.
C16_InapplicableChangesNothing ==
    [][ /\ (Viewing /\ (isprint(command')
                         \/ command' \in {BACK, LEFT, RIGHT, BACKSPACE, CLEAR}))
            => (~ret' /\ fields' = fields /\ events' = <<>> /\ calls' = <<>>)
        /\ (Editing /\ command' = ENTER)
            => (~ret' /\ fields' = fields /\ events' = <<>> /\ calls' = <<>>)
        /\ command' \in {UP, DOWN}
            => /\ ret' = editModeEnabled
               /\ fields' = fields /\ events' = <<>> /\ calls' = <<>>
        /\ (command' # NoCommand /\ ~isprint(command')
              /\ command' \notin {ENTER, BACK, UP, DOWN, LEFT, RIGHT,
                                  BACKSPACE, CLEAR})
            => (~ret' /\ fields' = fields /\ events' = <<>> /\ calls' = <<>>)
      ]_vars

\* CLEAR was refused while Viewing, after a session, and the value is still
\* there
C16_Witness ==
    /\ Viewing /\ command = CLEAR /\ ~ret
    /\ events = <<>> /\ Len(value) > 0 /\ drawn # NotDrawn

\* C17: a printable character, LEFT, RIGHT or BACKSPACE while Editing moves
\* View Offset by at most one position: down by 1 only when the new Cursor
\* is below the old View Offset (LEFT, BACKSPACE), up by 1 only when the new
\* Cursor is above old View Offset + VisibleWidth - 1 (RIGHT, insert),
\* otherwise not at all; View Offset never goes below 0.
C17_WindowMovesByOne ==
    [][ (Editing /\ (isprint(command')
                      \/ command' \in {LEFT, RIGHT, BACKSPACE}))
            => /\ view' \in {view - 1, view, view + 1}
               /\ view' >= 0
               /\ view' = view - 1
                   => (command' \in {LEFT, BACKSPACE} /\ cursor' < view)
               /\ view' = view + 1
                   => /\ isprint(command') \/ command' = RIGHT
                      /\ cursor' > view + VisibleWidth - 1
               /\ (cursor' < cursor /\ cursor' < view) => view' = view - 1
               /\ (cursor' > cursor /\ cursor' > view + VisibleWidth - 1)
                   => view' = view + 1 ]_vars

\* a LEFT moved the cursor out of the window, the window followed by one
\* position and the row was redrawn
C17_Witness ==
    /\ Editing /\ command = LEFT /\ ret
    /\ events = <<"drawItem", "resetBlinker">>
    /\ view = cursor /\ view > 0

\* C18: whenever the Edit Mode Flag is false View Offset is 0, initially and
\* after any number of edit sessions, and after every BACK from Editing
\* Cursor is 0 as well.
C18_ViewingIsUnscrolled ==
    Viewing => (view = 0 /\ ((command = BACK /\ ret) => cursor = 0))

\* a BACK ended a session whose value is longer than the window
C18_Witness ==
    /\ Viewing /\ command = BACK /\ ret
    /\ view = 0 /\ cursor = 0 /\ Len(value) > VisibleWidth + 1

\* C19: once the row was drawn, the row last drawn is the label and the
\* slice of the current Value of length VisibleWidth that starts at the
\* current View Offset.
C19_DisplayNeverStale ==
    drawn # NotDrawn
        => drawn = <<text, ":",
                     SubSeq(value, view + 1, Min(view + VisibleWidth, Len(value)))>>

\* C20: values of 255 and more characters keep the contract: appending a
\* character with Cursor = length(Value) = 255 gives Cursor = length(Value)
\* = 256, and ENTER on any value, of 256 or more characters too, sets
\* Cursor = length(Value).
C20_LongValuesKeepCursor ==
    [][ /\ (Viewing /\ command' = ENTER) => cursor' = Len(value')
        /\ (Editing /\ isprint(command') /\ cursor = 255 /\ Len(value) = 255)
            => (Len(value') = 256 /\ cursor' = 256) ]_vars
====
